---- MODULE Spec2Model ----
(***************************************************************************)
(* Cart Builder (React component App, versions v11, v14 and v17).          *)
(*                                                                         *)
(* Strings are sequences of one-character strings, so that trimming,       *)
(* filtering and number parsing are computed character by character.       *)
(* JavaScript numbers are exact rationals n/d (d > 0, lowest terms) or the *)
(* non-finite values; binary rounding of doubles is not modelled.          *)
(***************************************************************************)
EXTENDS Integers, Sequences, FiniteSets, TLC

VARIABLES
    version,      \* which of the three App variants is running
    storage,      \* the localStorage slot "shopping_cart_items_vNN"
    items,        \* useState items (whatever the initializer returned)
    name,         \* useState name
    qtyStr,       \* useState qtyStr
    amountStr,    \* useState amountStr
    errors,       \* useState errors
    editingId,    \* useState editingId
    showConfirm,  \* useState showConfirm
    mounted,      \* the first render and its effects have run
    crashed       \* an exception escaped into React: the tree is unmounted

vars == <<version, storage, items, name, qtyStr, amountStr, errors,
          editingId, showConfirm, mounted, crashed>>

------------------------------------------------------------------------------
(* Bounds of the model *)

\* most items the cart holds
MaxItems == 2

\* most items of a list found in the slot at startup
MaxStored == 3

------------------------------------------------------------------------------
(* JavaScript values *)

RECURSIVE Gcd(_, _)
Gcd(a, b) == IF b = 0 THEN a ELSE Gcd(b, a % b)

Abs(x) == IF x < 0 THEN -x ELSE x

\* the finite number n/d in lowest terms
Num(n, d) ==
    LET g == Gcd(Abs(n), Abs(d))
        s == IF d < 0 THEN -1 ELSE 1
    IN  [k |-> "num", n |-> (s * n) \div g, d |-> (s * d) \div g]

Zero      == [k |-> "num", n |-> 0, d |-> 1]
NaN       == [k |-> "nan", n |-> 0, d |-> 1]
Infinity  == [k |-> "inf", n |-> 0, d |-> 1]
Undefined == [k |-> "undef", n |-> 0, d |-> 1]
Null      == [k |-> "null", n |-> 0, d |-> 1]

isFinite(x) == x.k = "num"

\* ToNumber on a non-string value
Number(v) ==
    CASE v.k = "num"   -> v
      [] v.k = "null"  -> Zero
      [] v.k = "undef" -> NaN
      [] OTHER         -> v

Mul(x, y) ==
    IF isFinite(x) /\ isFinite(y) THEN Num(x.n * y.n, x.d * y.d)
    ELSE IF (isFinite(x) /\ x.n = 0) \/ (isFinite(y) /\ y.n = 0) \/ x.k = "nan" \/ y.k = "nan"
         THEN NaN ELSE Infinity

Add(x, y) ==
    IF isFinite(x) /\ isFinite(y) THEN Num(x.n * y.d + y.n * x.d, x.d * y.d)
    ELSE IF x.k = "nan" \/ y.k = "nan" THEN NaN ELSE Infinity

Div(x, y) ==
    IF isFinite(x) /\ isFinite(y)
    THEN IF y.n # 0 THEN Num(x.n * y.d, x.d * y.n)
         ELSE IF x.n = 0 THEN NaN ELSE Infinity
    ELSE NaN

\* x < 0 and x <= 0 on numbers (comparisons with NaN are false)
LtZero(x) == isFinite(x) /\ x.n < 0
LeZero(x) == isFinite(x) /\ x.n <= 0

\* falsy numbers: 0 and NaN
Falsy(x) == x.k = "nan" \/ (isFinite(x) /\ x.n = 0)

Trunc(x) == IF isFinite(x) THEN Num((Abs(x.n) \div x.d) * (IF x.n < 0 THEN -1 ELSE 1), 1) ELSE x

------------------------------------------------------------------------------
(* Strings *)

Digits == {"0", "1", "2", "3", "4", "5", "6", "7", "8", "9"}

DigitVal(c) ==
    CASE c = "0" -> 0 [] c = "1" -> 1 [] c = "2" -> 2 [] c = "3" -> 3 [] c = "4" -> 4
      [] c = "5" -> 5 [] c = "6" -> 6 [] c = "7" -> 7 [] c = "8" -> 8 [] c = "9" -> 9

DigitChar(n) ==
    CASE n = 0 -> "0" [] n = 1 -> "1" [] n = 2 -> "2" [] n = 3 -> "3" [] n = 4 -> "4"
      [] n = 5 -> "5" [] n = 6 -> "6" [] n = 7 -> "7" [] n = 8 -> "8" [] n = 9 -> "9"

IsSpace(c) == c = " "

RECURSIVE Filter(_, _)
Filter(s, keep) ==
    IF s = <<>> THEN <<>>
    ELSE (IF Head(s) \in keep THEN <<Head(s)>> ELSE <<>>) \o Filter(Tail(s), keep)

\* index of the first character of s that is in set, 0 when there is none
RECURSIVE Search(_, _, _)
Search(s, set, i) ==
    IF i > Len(s) THEN 0
    ELSE IF s[i] \in set THEN i ELSE Search(s, set, i + 1)

RECURSIVE TrimLeft(_)
TrimLeft(s) == IF s # <<>> /\ IsSpace(Head(s)) THEN TrimLeft(Tail(s)) ELSE s

RECURSIVE TrimRight(_)
TrimRight(s) ==
    IF s # <<>> /\ IsSpace(s[Len(s)]) THEN TrimRight(SubSeq(s, 1, Len(s) - 1)) ELSE s

trim(s) == TrimRight(TrimLeft(s))

\* the value of a string of digits
RECURSIVE DigitsValue(_)
DigitsValue(s) ==
    IF s = <<>> THEN 0 ELSE 10 * DigitsValue(SubSeq(s, 1, Len(s) - 1)) + DigitVal(s[Len(s)])

RECURSIVE Pow10(_)
Pow10(k) == IF k = 0 THEN 1 ELSE 10 * Pow10(k - 1)

AllDigits(s) == \A i \in 1..Len(s) : s[i] \in Digits

\* Number(string): StringNumericLiteral over digits, '.', sign and blanks;
\* anything else is NaN
StrToNumber(str) ==
    LET t    == trim(str)
        neg  == t # <<>> /\ Head(t) = "-"
        u    == IF t # <<>> /\ Head(t) \in {"-", "+"} THEN Tail(t) ELSE t
        dot  == Search(u, {"."}, 1)
        ip   == IF dot = 0 THEN u ELSE SubSeq(u, 1, dot - 1)
        fp   == IF dot = 0 THEN <<>> ELSE SubSeq(u, dot + 1, Len(u))
        sgn  == IF neg THEN -1 ELSE 1
    IN  IF t = <<>> THEN Zero
        ELSE IF AllDigits(ip) /\ AllDigits(fp) /\ Len(ip) + Len(fp) > 0
        THEN Num(sgn * (DigitsValue(ip) * Pow10(Len(fp)) + DigitsValue(fp)), Pow10(Len(fp)))
        ELSE NaN

RECURSIVE NatToStr(_)
NatToStr(n) == IF n < 10 THEN <<DigitChar(n)>> ELSE NatToStr(n \div 10) \o <<DigitChar(n % 10)>>

\* the decimal digits of r/d (r < d), at most k of them, stopping when exact
RECURSIVE FracDigits(_, _, _)
FracDigits(r, d, k) ==
    IF r = 0 \/ k = 0 THEN <<>>
    ELSE <<DigitChar((10 * r) \div d)>> \o FracDigits((10 * r) % d, d, k - 1)

\* String(number)
NumToString(x) ==
    CASE x.k = "nan" -> <<"N", "a", "N">>
      [] x.k = "inf" -> <<"I", "n", "f", "i", "n", "i", "t", "y">>
      [] OTHER ->
            LET a  == Abs(x.n)
                fr == FracDigits(a % x.d, x.d, 17)
            IN  (IF x.n < 0 THEN <<"-">> ELSE <<>>) \o NatToStr(a \div x.d)
                    \o (IF fr = <<>> THEN <<>> ELSE <<".">> \o fr)

------------------------------------------------------------------------------
(* Utils *)

\* uid(): Date.now().toString(36) + Math.random().toString(36).slice(2); now is
\* the clock reading and rnd the random draw of the call
uid(now, rnd) == <<now, rnd>>

\* editingId = null
NoId == <<>>

\* truthiness of an id (null and the empty string are falsy)
Truthy(id) == id # <<>>

\* num without the Number.isFinite test
numUnchecked(v) == Number(v)

num(v) ==
    LET x == Number(v)
    IN  IF isFinite(x) THEN x ELSE Zero

parseIntSafe(s) ==
    LET n == StrToNumber(Filter(s, Digits))
    IN  IF isFinite(n) THEN Trunc(n) ELSE Zero

\* String.replace(",", "."): the first comma only
ReplaceFirstComma(s) ==
    LET i == Search(s, {","}, 1)
    IN  IF i = 0 THEN s ELSE [s EXCEPT ![i] = "."]

parseFloatSafe(s) ==
    LET n == StrToNumber(ReplaceFirstComma(s))
    IN  IF isFinite(n) THEN n ELSE Zero

safeDivide(amount, qty) ==
    LET q == num(qty)
    IN  IF Falsy(q) THEN Zero ELSE Div(num(amount), q)

onlyDigits(s) == Filter(s, Digits)

onlyDecimal(s) ==
    LET t        == Filter(s, Digits \cup {".", ","})
        firstSep == Search(t, {".", ","}, 1)
    IN  IF firstSep # 0
        THEN SubSeq(t, 1, firstSep) \o Filter(SubSeq(t, firstSep + 1, Len(t)), Digits)
        ELSE t

\* the messages are written here with ">=" for the source's U+2265
AmountRequiredMsg(v) ==
    IF v = "v11" THEN "Amount is required." ELSE "Amount (unit price) is required."

AmountMinMsg(v) ==
    IF v = "v11" THEN "Amount must be >= 0." ELSE "Amount (unit price) must be >= 0."

\* validateForPanel without the "qty <= 0" rule
validateNoQtyMin(v, nm, qs, as) ==
    LET amt == parseFloatSafe(as)
    IN  (IF trim(nm) = <<>> THEN <<"Item name is required.">> ELSE <<>>)
        \o (IF trim(qs) = <<>> THEN <<"Qty is required.">> ELSE <<>>)
        \o (IF trim(as) = <<>> THEN <<AmountRequiredMsg(v)>> ELSE <<>>)
        \o (IF LtZero(amt) THEN <<AmountMinMsg(v)>> ELSE <<>>)

\* validateForPanel returning at the first rule that applies
validateFirstOnly(v, nm, qs, as) ==
    LET qty == parseIntSafe(qs)
        amt == parseFloatSafe(as)
    IN  IF trim(nm) = <<>> THEN <<"Item name is required.">>
        ELSE IF trim(qs) = <<>> THEN <<"Qty is required.">>
        ELSE IF trim(as) = <<>> THEN <<AmountRequiredMsg(v)>>
        ELSE IF LeZero(qty) THEN <<"Qty must be >= 1.">>
        ELSE IF LtZero(amt) THEN <<AmountMinMsg(v)>>
        ELSE <<>>

validateForPanel(v, nm, qs, as) ==
    LET qty == parseIntSafe(qs)
        amt == parseFloatSafe(as)
    IN  (IF trim(nm) = <<>> THEN <<"Item name is required.">> ELSE <<>>)
        \o (IF trim(qs) = <<>> THEN <<"Qty is required.">> ELSE <<>>)
        \o (IF trim(as) = <<>> THEN <<AmountRequiredMsg(v)>> ELSE <<>>)
        \o (IF LeZero(qty) THEN <<"Qty must be >= 1.">> ELSE <<>>)
        \o (IF LtZero(amt) THEN <<AmountMinMsg(v)>> ELSE <<>>)

------------------------------------------------------------------------------
(* The storage slot and JSON *)

\* what the slot holds: nothing, the empty string, text JSON.parse rejects, or
\* the JSON text of the value v
Slot(k, v) == [k |-> k, v |-> v]

JArr(e)  == [t |-> "arr", e |-> e]
JNull    == [t |-> "null", e |-> <<>>]
JObj     == [t |-> "obj", e |-> <<>>]

IsArr(v) == v.t = "arr"

\* a numeral too large for a double, as JSON text can hold (1e999)
Big == [k |-> "big", n |-> 0, d |-> 1]

\* JSON.stringify of a field: non-finite numbers are written as null, an
\* undefined field is left out
StringifyField(x) == IF x.k \in {"nan", "inf"} THEN Null ELSE x

ParseField(x) == IF x.k = "big" THEN Infinity ELSE x

StringifyItem(it) ==
    [id |-> it.id, name |-> it.name,
     qty |-> StringifyField(it.qty), unitPrice |-> StringifyField(it.unitPrice)]

ParseItem(it) ==
    [id |-> it.id, name |-> it.name,
     qty |-> ParseField(it.qty), unitPrice |-> ParseField(it.unitPrice)]

JSONstringify(v) ==
    IF IsArr(v) THEN JArr([i \in 1..Len(v.e) |-> StringifyItem(v.e[i])]) ELSE v

JSONparse(v) ==
    IF IsArr(v) THEN JArr([i \in 1..Len(v.e) |-> ParseItem(v.e[i])]) ELSE v

\* the useState initializer of items
LoadItems(slot) ==
    CASE slot.k = "absent"  -> JArr(<<>>)
      [] slot.k = "empty"   -> JArr(<<>>)
      [] slot.k = "garbage" -> JArr(<<>>)
      [] OTHER              -> JSONparse(slot.v)

------------------------------------------------------------------------------
(* Inputs *)

\* v11 is src/src/App.jsx (Amount is the line amount); v17 is
\* src/unnamed/part_000 (Amount is the unit price); v14, src/unnamed/part_001,
\* has the state, the handlers and the utils of v17 and is covered by it
Versions == {"v11", "v17"}

\* what the user may type into the name field
RawNames == { <<>>, <<" ", "A">>, <<"B">> }

\* what the user may type into the Qty field (before onlyDigits); CANCEL
\* blanks it
RawQtys == { <<"0">>, <<"2", "x">> }

\* what the user may type into the Amount field (before onlyDecimal); CANCEL
\* blanks it
RawAmounts == { <<"3">>, <<"-", ",">> }

\* Date.now() readings and Math.random() draws
Clock == {1}
Draws == {1, 2}

Item(id, nm, qty, unitPrice) == [id |-> id, name |-> nm, qty |-> qty, unitPrice |-> unitPrice]

\* what the slot may hold when the session starts: nothing, unusable text,
\* JSON that is no array, or the empty list
InitStorage ==
    { Slot("absent", JNull), Slot("empty", JNull), Slot("garbage", JNull),
      Slot("json", JNull), Slot("json", JObj), Slot("json", JArr(<<>>)) }

\* items an earlier session or another program left in the slot: qty and
\* unitPrice may be missing, null, or numerals beyond the range of a double
StoredItems ==
    { Item(uid(1, r), <<"A">>, q, p) :
        r \in Draws, q \in {Num(2, 1), Undefined, Big}, p \in {Num(3, 2), Null} }

StoredLists == UNION { [1..n -> StoredItems] : n \in 0..MaxStored }

LoadStorage == { Slot("json", JArr(l)) : l \in StoredLists }

------------------------------------------------------------------------------
(* Derived *)

\* items.reduce((s, it) => s + num(it.qty) * num(it.unitPrice), 0), from the
\* element i on, with the accumulator s
RECURSIVE reduceSubtotal(_, _, _)
reduceSubtotal(arr, s, i) ==
    IF i > Len(arr) THEN s
    ELSE reduceSubtotal(arr, Add(s, Mul(num(arr[i].qty), num(arr[i].unitPrice))), i + 1)

\* items.reduce((s, it) => s + num(it.qty), 0)
RECURSIVE reduceTotalQty(_, _, _)
reduceTotalQty(arr, s, i) ==
    IF i > Len(arr) THEN s ELSE reduceTotalQty(arr, Add(s, num(arr[i].qty)), i + 1)

\* useMemo totals
totals ==
    [subtotal |-> reduceSubtotal(items.e, Zero, 1),
     totalQty |-> reduceTotalQty(items.e, Zero, 1)]

------------------------------------------------------------------------------
(* State *)

InitFrom(slots) ==
    /\ version \in Versions
    /\ storage \in slots
    /\ items = LoadItems(storage)
    /\ name = <<>>
    /\ qtyStr = <<>>
    /\ amountStr = <<>>
    /\ errors = <<>>
    /\ editingId = NoId
    /\ showConfirm = FALSE
    /\ mounted = FALSE
    /\ crashed = FALSE

Init == InitFrom(InitStorage)

\* a session that starts on a stored list
InitLoad == InitFrom(LoadStorage)

\* the persistence effect: localStorage.setItem(key, JSON.stringify(items))
persisted(its) == Slot("json", JSONstringify(its))

\* the effect after a render with the items its: setItem stores the text (ok)
\* or throws, as it does when the quota is exceeded; nothing in the component
\* catches the exception, so it escapes into React, which unmounts the tree
persistEffect(its, ok) ==
    IF ok
    THEN storage' = persisted(its) /\ crashed' = FALSE
    ELSE storage' = storage /\ crashed' = TRUE

\* setItems(its) with the other state updates of the handler (rest), the
\* render, and the persistence effect
setItems(its, ok, rest) ==
    /\ items' = its
    /\ rest
    /\ persistEffect(its, ok)
    /\ UNCHANGED <<version, mounted>>

\* first render (totals and the rows are computed from items, which throws
\* unless items is an array), then the effects
Mount ==
    /\ ~mounted /\ ~crashed
    /\ IF IsArr(items)
       THEN /\ mounted' = TRUE
            /\ \E ok \in BOOLEAN : persistEffect(items, ok)
       ELSE /\ mounted' = FALSE
            /\ crashed' = TRUE
            /\ storage' = storage
    /\ UNCHANGED <<version, items, name, qtyStr, amountStr, errors, editingId, showConfirm>>

Running == mounted /\ ~crashed

------------------------------------------------------------------------------
(* Handlers *)

formReset ==
    /\ editingId' = NoId
    /\ name' = <<>>
    /\ qtyStr' = <<>>
    /\ amountStr' = <<>>
    /\ errors' = <<>>

formUnchanged == UNCHANGED <<name, qtyStr, amountStr, errors, editingId>>

clearForm ==
    /\ Running
    /\ formReset
    /\ UNCHANGED <<version, storage, items, showConfirm, mounted, crashed>>

onChangeName(raw) ==
    /\ Running
    /\ name' = raw
    /\ UNCHANGED <<version, storage, items, qtyStr, amountStr, errors, editingId,
                   showConfirm, mounted, crashed>>

onChangeQty(raw) ==
    /\ Running
    /\ qtyStr' = onlyDigits(raw)
    /\ UNCHANGED <<version, storage, items, name, amountStr, errors, editingId,
                   showConfirm, mounted, crashed>>

onChangeAmount(raw) ==
    /\ Running
    /\ amountStr' = onlyDecimal(raw)
    /\ UNCHANGED <<version, storage, items, name, qtyStr, errors, editingId,
                   showConfirm, mounted, crashed>>

\* String(x || "")
StringOrBlank(x) == IF Falsy(x) THEN <<>> ELSE NumToString(x)

\* the Amount buffer onRowClick shows for the item it
rowAmount(v, it) ==
    IF v = "v11"
    THEN StringOrBlank(Mul(num(it.qty), num(it.unitPrice)))
    ELSE StringOrBlank(num(it.unitPrice))

onRowClick(i) ==
    /\ Running
    /\ i \in 1..Len(items.e)
    /\ editingId' = items.e[i].id
    /\ name' = items.e[i].name
    /\ qtyStr' = StringOrBlank(num(items.e[i].qty))
    /\ amountStr' = rowAmount(version, items.e[i])
    /\ UNCHANGED <<version, storage, items, errors, showConfirm, mounted, crashed>>

\* the unit price addOrSave stores for the buffers
unitPriceOf(v, qs, as) ==
    IF v = "v11"
    THEN safeDivide(parseFloatSafe(as), parseIntSafe(qs))
    ELSE parseFloatSafe(as)

\* prev.map(it => it.id === editingId ? {...it, name, qty, unitPrice} : it)
saveItems(prev, id, nm, qty, unitPrice) ==
    [i \in 1..Len(prev) |->
        IF prev[i].id = id
        THEN [prev[i] EXCEPT !.name = nm, !.qty = qty, !.unitPrice = unitPrice]
        ELSE prev[i]]

\* [...prev, newItem]
appendItem(prev, newItem) == Append(prev, newItem)

\* the items addOrSave sets when validation passed
committedItems(v, prev, eid, nm, qs, as, newId) ==
    LET qty       == parseIntSafe(qs)
        unitPrice == unitPriceOf(v, qs, as)
    IN  IF Truthy(eid)
        THEN saveItems(prev, eid, trim(nm), qty, unitPrice)
        ELSE appendItem(prev, Item(newId, trim(nm), qty, unitPrice))

\* addOrSave without the return after setErrors(errs)
addOrSaveOutcomeNoReturn(v, prev, eid, nm, qs, as, newId) ==
    [saved |-> TRUE, errors |-> <<>>,
     items |-> committedItems(v, prev, eid, nm, qs, as, newId)]

\* what addOrSave leaves in errors and in items, and whether it went past
\* the validation
addOrSaveOutcome(v, prev, eid, nm, qs, as, newId) ==
    LET errs == validateForPanel(v, nm, qs, as)
    IN  IF Len(errs) # 0
        THEN [saved |-> FALSE, errors |-> errs, items |-> prev]
        ELSE [saved |-> TRUE, errors |-> <<>>,
              items |-> committedItems(v, prev, eid, nm, qs, as, newId)]

addOrSave(now, rnd) ==
    LET out == addOrSaveOutcome(version, items.e, editingId, name, qtyStr, amountStr,
                                uid(now, rnd))
    IN  /\ Running
        /\ IF ~out.saved
           THEN /\ errors' = out.errors
                /\ items' = JArr(out.items)
                /\ UNCHANGED <<version, storage, name, qtyStr, amountStr,
                               editingId, showConfirm, mounted, crashed>>
           ELSE /\ Truthy(editingId) \/ Len(items.e) < MaxItems
                /\ \E ok \in BOOLEAN :
                      setItems(JArr(out.items), ok, formReset /\ UNCHANGED showConfirm)

\* prev.filter(it => it.id !== id)
RECURSIVE filterOut(_, _)
filterOut(prev, id) ==
    IF prev = <<>> THEN <<>>
    ELSE (IF Head(prev).id # id THEN <<Head(prev)>> ELSE <<>>) \o filterOut(Tail(prev), id)

\* removeItem without the clearForm of the item being edited
removeItemKeepsForm(id) ==
    /\ Running
    /\ \E ok \in BOOLEAN :
          setItems(JArr(filterOut(items.e, id)), ok, formUnchanged /\ UNCHANGED showConfirm)

removeItem(id) ==
    /\ Running
    /\ \E ok \in BOOLEAN :
          setItems(JArr(filterOut(items.e, id)), ok,
                   /\ IF editingId = id THEN formReset ELSE formUnchanged
                   /\ UNCHANGED showConfirm)

\* the row's X button
onRemoveClick(i) ==
    /\ Running
    /\ i \in 1..Len(items.e)
    /\ removeItem(items.e[i].id)

\* the Clear all button is disabled while the list is empty
requestClearAll ==
    /\ Running
    /\ Len(items.e) # 0
    /\ showConfirm' = TRUE
    /\ UNCHANGED <<version, storage, items, name, qtyStr, amountStr, errors, editingId,
                   mounted, crashed>>

\* respondClearAll without the test of yes
respondClearAllAlways(yes) ==
    /\ Running
    /\ showConfirm
    /\ \E ok \in BOOLEAN :
          setItems(JArr(<<>>), ok, formReset /\ showConfirm' = FALSE)

\* the modal's YES and NO buttons exist only while showConfirm
respondClearAll(yes) ==
    /\ Running
    /\ showConfirm
    /\ IF yes
       THEN \E ok \in BOOLEAN :
                setItems(JArr(<<>>), ok, formReset /\ showConfirm' = FALSE)
       ELSE /\ showConfirm' = FALSE
            /\ UNCHANGED <<version, storage, items, name, qtyStr, amountStr, errors,
                           editingId, mounted, crashed>>

Next ==
    \/ Mount
    \/ \E raw \in RawNames : onChangeName(raw)
    \/ \E raw \in RawQtys : onChangeQty(raw)
    \/ \E raw \in RawAmounts : onChangeAmount(raw)
    \/ \E i \in 1..MaxItems : onRowClick(i)
    \/ \E now \in Clock, rnd \in Draws : addOrSave(now, rnd)
    \/ \E i \in 1..MaxItems : onRemoveClick(i)
    \/ requestClearAll
    \/ \E yes \in BOOLEAN : respondClearAll(yes)
    \/ clearForm

Spec == Init /\ [][Next]_vars

\* a session on a stored list in which the user looks at rows and removes them
NextLoad ==
    \/ Mount
    \/ \E i \in 1..MaxStored : onRowClick(i)
    \/ \E i \in 1..MaxStored : onRemoveClick(i)
    \/ clearForm

SpecLoad == InitLoad /\ [][NextLoad]_vars

\* the arguments validateForPanel may be called with: any strings, not only
\* what onlyDigits and onlyDecimal let through
ValNames   == { <<>>, <<" ">>, <<"B">> }
ValQtys    == { <<>>, <<" ">>, <<"0">>, <<"2">>, <<"-", "1">> }
ValAmounts == { <<>>, <<" ">>, <<"5">>, <<"-", "1">>, <<"a">> }

\* the form of a running cart holding the arguments of a call
InitValidate ==
    /\ version \in Versions
    /\ items = JArr(<<>>)
    /\ storage = persisted(items)
    /\ name \in ValNames
    /\ qtyStr \in ValQtys
    /\ amountStr \in ValAmounts
    /\ errors = <<>>
    /\ editingId = NoId
    /\ showConfirm = FALSE
    /\ mounted = TRUE
    /\ crashed = FALSE

\* const errs = validateForPanel(name, qtyStr, amountStr); setErrors(errs)
setErrorsOfValidate ==
    /\ Running
    /\ errors' = validateForPanel(version, name, qtyStr, amountStr)
    /\ UNCHANGED <<version, storage, items, name, qtyStr, amountStr, editingId,
                   showConfirm, mounted, crashed>>

SpecValidate == InitValidate /\ [][setErrorsOfValidate]_vars

------------------------------------------------------------------------------
(* Properties *)

list == items.e

formErrors == validateForPanel(version, name, qtyStr, amountStr)

FormBlank ==
    /\ editingId = NoId /\ name = <<>> /\ qtyStr = <<>> /\ amountStr = <<>> /\ errors = <<>>

\* C1: a commit whose validation reports errors leaves the item list exactly
\* as it was and shows those errors; nothing is added or updated.
C1_RejectedCommitKeepsItems ==
    (Running /\ formErrors # <<>>)
        => \A now \in Clock, rnd \in Draws :
              LET out == addOrSaveOutcome(version, list, editingId, name, qtyStr,
                                          amountStr, uid(now, rnd))
              IN  out.items = list /\ out.errors = formErrors /\ ~out.saved

\* a rejected commit has happened on a cart that holds items, one of them
\* being edited
C1_Witness ==
    /\ Running
    /\ errors # <<>>
    /\ errors = formErrors
    /\ Len(list) = 2
    /\ editingId # NoId

IsValidItem(it) ==
    /\ isFinite(it.qty) /\ it.qty.d = 1 /\ it.qty.n >= 1
    /\ isFinite(it.unitPrice) /\ it.unitPrice.n >= 0

\* C2: in a session that starts on the empty cart, whatever is committed,
\* edited, removed, cleared or cancelled, every item has an integer
\* quantity >= 1 and a unit price >= 0.
C2_ItemsValid ==
    IsArr(items) => \A i \in 1..Len(list) : IsValidItem(list[i])

\* two items have been committed, one with a fractional unit price (the
\* division of v11) and one with unit price 0
C2_Witness ==
    /\ Running
    /\ Len(list) = 2
    /\ \E i, j \in 1..Len(list) : list[i].unitPrice = Num(3, 2) /\ list[j].unitPrice = Zero

\* C3: the ids of the items are pairwise distinct.
C3_UniqueIds ==
    IsArr(items) => \A i, j \in 1..Len(list) : i # j => list[i].id # list[j].id

\* C4: a successful commit in edit mode keeps the length of the list, puts
\* the new name, quantity and unit price into the item being edited, which
\* keeps its id and position, and leaves every other item as it was.
C4_EditInPlace ==
    [][\A now \in Clock, rnd \in Draws :
          (/\ addOrSave(now, rnd)
           /\ formErrors = <<>>
           /\ \E i \in 1..Len(list) : list[i].id = editingId)
              => /\ Len(items'.e) = Len(list)
                 /\ \E i \in 1..Len(list) :
                       /\ list[i].id = editingId
                       /\ items'.e[i] = Item(editingId, trim(name), parseIntSafe(qtyStr),
                                             unitPriceOf(version, qtyStr, amountStr))
                       /\ \A j \in 1..Len(list) : j # i => items'.e[j] = list[j]]_vars

\* the same on the lists whose ids are distinct
EditInPlaceOfDistinctIds ==
    [][\A now \in Clock, rnd \in Draws :
          (/\ addOrSave(now, rnd)
           /\ formErrors = <<>>
           /\ C3_UniqueIds
           /\ \E i \in 1..Len(list) : list[i].id = editingId)
              => /\ Len(items'.e) = Len(list)
                 /\ \E i \in 1..Len(list) :
                       /\ list[i].id = editingId
                       /\ items'.e[i] = Item(editingId, trim(name), parseIntSafe(qtyStr),
                                             unitPriceOf(version, qtyStr, amountStr))
                       /\ \A j \in 1..Len(list) : j # i => items'.e[j] = list[j]]_vars

\* the list a successful commit in add mode makes of the current one
added(now, rnd) ==
    committedItems(version, list, NoId, name, qtyStr, amountStr, uid(now, rnd))

\* C5: a successful commit in add mode appends exactly one item at the end,
\* and removing that item by its id gives back the list as it was before.
C5_AddThenRemove ==
    (Running /\ editingId = NoId /\ formErrors = <<>>)
        => \A now \in Clock, rnd \in Draws :
              /\ Len(added(now, rnd)) = Len(list) + 1
              /\ SubSeq(added(now, rnd), 1, Len(list)) = list
              /\ filterOut(added(now, rnd), added(now, rnd)[Len(list) + 1].id) = list

\* the same when the id drawn for the new item is none of the list's
AddThenRemoveOfFreshId ==
    (Running /\ editingId = NoId /\ formErrors = <<>>)
        => \A now \in Clock, rnd \in Draws :
              (\A i \in 1..Len(list) : list[i].id # uid(now, rnd))
                  => /\ Len(added(now, rnd)) = Len(list) + 1
                     /\ SubSeq(added(now, rnd), 1, Len(list)) = list
                     /\ filterOut(added(now, rnd), uid(now, rnd)) = list

\* C6: asking to clear all changes no item and only opens the confirmation;
\* answering no leaves the items and the form as they were and closes it;
\* answering yes empties the items, puts the form back into add mode with
\* blank buffers and no errors, and closes it.
C6_ClearNeedsConfirmation ==
    [][/\ requestClearAll => (items' = items /\ showConfirm')
       /\ respondClearAll(FALSE)
            => /\ items' = items
               /\ <<name, qtyStr, amountStr, errors, editingId>>'
                    = <<name, qtyStr, amountStr, errors, editingId>>
               /\ ~showConfirm'
       /\ respondClearAll(TRUE)
            => /\ items' = JArr(<<>>)
               /\ FormBlank'
               /\ ~showConfirm']_vars

\* the confirmation is pending on a cart that holds items, one of them being
\* edited
C6_Witness ==
    /\ Running
    /\ showConfirm
    /\ Len(list) = 2
    /\ editingId # NoId
    /\ name # <<>>

\* the slot holds the text of a list of items
HoldsList(slot) == slot.k = "json" /\ IsArr(slot.v)

\* C7: when the slot is absent or holds anything that is not a serialized
\* item list, the cart the session starts on is the empty list.
C7_UnusableSlotLoadsEmpty ==
    (~mounted /\ ~crashed /\ ~HoldsList(storage)) => items = JArr(<<>>)

\* C8: after every mutation the slot holds the text of the current items, so
\* that at any time a fresh load from the slot gives the list in memory.
C8_LoadGivesItems ==
    mounted => (storage = Slot("json", JSONstringify(items)) /\ LoadItems(storage) = items)

\* the same while no write has failed
SlotFollowsItemsWhileRunning ==
    Running => (storage = Slot("json", JSONstringify(items)) /\ LoadItems(storage) = items)

\* C9: a storage write that fails raises no error: no step of a running cart
\* ends with an exception that escaped the component.
C9_WriteFailureSwallowed ==
    [][Running => ~crashed']_vars

\* a missing or non-finite number counts as 0
OrZero(x) == IF x.k = "num" THEN x ELSE Zero

RECURSIVE SumLines(_)
SumLines(l) ==
    IF l = <<>> THEN Zero
    ELSE Add(Mul(OrZero(Head(l).qty), OrZero(Head(l).unitPrice)), SumLines(Tail(l)))

RECURSIVE SumQty(_)
SumQty(l) == IF l = <<>> THEN Zero ELSE Add(OrZero(Head(l).qty), SumQty(Tail(l)))

\* C10: subtotal is the sum of qty x unitPrice over the items and totalQty
\* the sum of qty, a missing or non-finite qty or unitPrice counting as 0;
\* both are 0 for the empty list.
C10_Totals ==
    IsArr(items)
        => /\ totals.subtotal = SumLines(list)
           /\ totals.totalQty = SumQty(list)
           /\ list = <<>> => (totals.subtotal = Zero /\ totals.totalQty = Zero)

\* a list with a missing qty, a non-finite qty and a null unitPrice beside
\* an ordinary item
C10_Witness ==
    /\ Running
    /\ Len(list) = 3
    /\ \E i, j, k \in 1..3 :
          /\ list[i].qty.k = "undef"
          /\ list[j].qty.k = "inf" /\ list[j].unitPrice.k = "null"
          /\ list[k].qty = Num(2, 1) /\ list[k].unitPrice = Num(3, 2)
    /\ totals.subtotal = Num(3, 1)
    /\ totals.totalQty = Num(2, 1)

\* the five rules in the order of the code: whether rule k applies to the
\* buffers, and its message
RuleApplies(k) ==
    CASE k = 1 -> trim(name) = <<>>
      [] k = 2 -> trim(qtyStr) = <<>>
      [] k = 3 -> trim(amountStr) = <<>>
      [] k = 4 -> LeZero(parseIntSafe(qtyStr))
      [] k = 5 -> LtZero(parseFloatSafe(amountStr))

RuleMsg(k) ==
    CASE k = 1 -> "Item name is required."
      [] k = 2 -> "Qty is required."
      [] k = 3 -> AmountRequiredMsg(version)
      [] k = 4 -> "Qty must be >= 1."
      [] k = 5 -> AmountMinMsg(version)

\* C11: validate returns the messages of exactly those of the five rules that
\* apply, each once and in rule order, whatever the other rules say; on three
\* blank arguments it begins with the three "required" messages in their
\* order; and it returns no message iff the commit goes past the validation.
C11_ValidateRules ==
    LET r == formErrors
    IN  /\ \A k \in 1..5 : RuleApplies(k) <=> (\E i \in 1..Len(r) : r[i] = RuleMsg(k))
        /\ Len(r) = Cardinality({k \in 1..5 : RuleApplies(k)})
        /\ \A i, j \in 1..Len(r) :
              i < j => \E k, m \in 1..5 : k < m /\ r[i] = RuleMsg(k) /\ r[j] = RuleMsg(m)
        /\ (name = <<>> /\ qtyStr = <<>> /\ amountStr = <<>>)
              => SubSeq(r, 1, 3) = <<RuleMsg(1), RuleMsg(2), RuleMsg(3)>>
        /\ (r = <<>>) <=> addOrSaveOutcome(version, list, editingId, name, qtyStr,
                                           amountStr, uid(1, 1)).saved
        /\ errors # <<>> => errors = r

\* validate has been called on three blank arguments
C11_Witness ==
    /\ name = <<>> /\ qtyStr = <<>> /\ amountStr = <<>>
    /\ Len(errors) = 4
    /\ SubSeq(errors, 1, 3) = <<"Item name is required.", "Qty is required.",
                                AmountRequiredMsg(version)>>

\* the subtotal of the list l
subtotalOf(l) == reduceSubtotal(l, Zero, 1)

\* the statement of C12 for the version v
AmountIsUnitPrice(v) ==
    (Running /\ version = v /\ editingId = NoId /\ formErrors = <<>>)
        => \A now \in Clock, rnd \in Draws :
              LET new == added(now, rnd)[Len(list) + 1]
                  Q   == parseIntSafe(qtyStr)
                  A   == parseFloatSafe(amountStr)
              IN  /\ new.qty = Q
                  /\ new.unitPrice = A
                  /\ subtotalOf(added(now, rnd)) = Add(subtotalOf(list), Mul(Q, A))
                  /\ (list = <<>> /\ name = <<"B">> /\ qtyStr = <<"2">> /\ amountStr = <<"3">>)
                        => /\ added(now, rnd) = <<Item(uid(now, rnd), <<"B">>, Num(2, 1), Num(3, 1))>>
                           /\ subtotalOf(added(now, rnd)) = Num(6, 1)

\* C12: a successful commit in add mode with quantity Q and amount A appends
\* an item with qty = Q and unitPrice = A and raises the subtotal by Q x A;
\* from the empty cart, name "B", qty "2", amount "3" gives the one item
\* (B, 2, 3) and the subtotal 6.
C12_AmountIsUnitPrice ==
    \A v \in Versions : AmountIsUnitPrice(v)

\* the same in the version whose addOrSave stores the parsed amount (v17)
AmountIsUnitPriceOfV17 == AmountIsUnitPrice("v17")

formKept == <<name, qtyStr, amountStr, editingId>>' = <<name, qtyStr, amountStr, editingId>>

\* C13: the form is in add mode with blank buffers and no errors right after
\* every successful commit, after every cancel, and after the removal of an
\* item whose id is editingId; cancel leaves the items as they were; a
\* rejected commit keeps the buffers and editingId, and the removal of an
\* item with another id keeps the whole form.
C13_FormBackInAddMode ==
    [][/\ \A now \in Clock, rnd \in Draws :
             addOrSave(now, rnd)
                => IF formErrors = <<>> THEN FormBlank' ELSE formKept /\ errors' # <<>>
       /\ clearForm => (FormBlank' /\ items' = items)
       /\ \A i \in 1..MaxItems :
             onRemoveClick(i)
                => IF list[i].id = editingId THEN FormBlank' ELSE formKept /\ errors' = errors]_vars

\* the form is blank again on a cart of two items that were committed
C13_Witness ==
    /\ Running
    /\ FormBlank
    /\ Len(list) = 2
    /\ list[1].name = <<"B">>
    /\ list[2].name = <<"A">>

\* the form after a click on row i shows the id, the name and the text of the
\* quantity and of the unit price of the item, and the items are as before
rowShown(i) ==
    /\ editingId' = list[i].id
    /\ name' = list[i].name
    /\ qtyStr' = NumToString(list[i].qty)
    /\ amountStr' = NumToString(list[i].unitPrice)
    /\ items' = items

\* C14: for every item of the cart, beginning to edit it sets editingId to
\* its id and the name, quantity and price buffers to the text of its name,
\* quantity and unit price, and leaves the items unchanged.
C14_BeginEditShowsItem ==
    [][\A i \in 1..MaxItems : onRowClick(i) => rowShown(i)]_vars

\* the same for the items with a unit price other than 0, in the version
\* whose Amount buffer is the unit price (v17)
BeginEditShowsPricedItemOfV17 ==
    [][\A i \in 1..MaxItems :
          (onRowClick(i) /\ version = "v17" /\ list[i].unitPrice # Zero) => rowShown(i)]_vars

\* the positions of the items a commit in edit mode rewrites
edited == {i \in 1..Len(list) : list[i].id = editingId}

\* C15: editingId is none or the id of an item of the cart, so that a commit
\* in edit mode rewrites exactly one item of the cart.
C15_EditingIdIsOneItem ==
    (IsArr(items) /\ editingId # NoId) => Cardinality(edited) = 1

\* editingId is none or the id of an item of the cart: a commit in edit mode
\* rewrites an item
EditingIdInItems ==
    (IsArr(items) /\ editingId # NoId) => edited # {}

\* what addOrSave makes of the cart right after a click on row i, the buffers
\* being those onRowClick has set
savedAsShown(i) ==
    addOrSaveOutcome(version, list, list[i].id, list[i].name,
                     StringOrBlank(num(list[i].qty)), rowAmount(version, list[i]),
                     uid(1, 1))

\* C16: for every item a commit has created (quantity >= 1, unit price >= 0,
\* the price 0 included), beginning to edit it and committing at once, the
\* buffers untouched, reports no error and leaves the items exactly as they
\* were.
C16_EditWithoutChange ==
    Running
        => \A i \in 1..Len(list) :
              /\ savedAsShown(i).saved
              /\ savedAsShown(i).errors = <<>>
              /\ savedAsShown(i).items = list

\* the same for the items with a unit price other than 0, in the carts
\* whose ids are distinct
EditWithoutChangeOfPricedItem ==
    (Running /\ C3_UniqueIds)
        => \A i \in 1..Len(list) :
              list[i].unitPrice # Zero
                  => /\ savedAsShown(i).saved
                     /\ savedAsShown(i).errors = <<>>
                     /\ savedAsShown(i).items = list

====
